---- MODULE Spec2Model ----
(***************************************************************************)
(* Model of the got test-fixture library: the directory-to-struct loader   *)
(* (Load / LoadDirs), its inverse (saveDir), the golden-file assertion     *)
(* (Assert) and the directory-driven suite runner (TestSuite.Run).         *)
(*                                                                         *)
(* Representation                                                          *)
(*   byte strings   sequences of tokens; <<>> is the empty string          *)
(*   file names     <<stem, ext>>, e.g. "a.txt" is <<"a", ".txt">>         *)
(*   paths          sequences of file names                                *)
(*   filesystem     fs: a function from the paths of the existing files to *)
(*                  their content; dirs: the existing directories          *)
(*   Go values      string: a byte string; []byte and map: a record with   *)
(*                  the nil flag, so that nil and empty differ             *)
(***************************************************************************)
EXTENDS Integers, Sequences, FiniteSets, TLC

\* ------------------------------------------------------------------ bounds
\* longest directory list handed to LoadDirs
MaxDirs == 3
\* most files present before the first call
MaxInitFiles == 2
\* most entries of a map value handed in by the caller
MaxKeys == 2
\* most entries of a directory the suite runner reads
MaxEntries == 2

\* the values handed to one assertion: at most this many
MaxValues == 2

\* the Register calls of one run: at most this many
MaxRegisters == 2

\* ------------------------------------------------------------------- paths
N(stem, ext) == <<stem, ext>>

ParentSeg == N("..", "")

\* filepath.Clean on a relative path: a ".." removes the segment before it
RECURSIVE Clean(_)
Clean(p) ==
  IF \E i \in 2..Len(p) : p[i] = ParentSeg /\ p[i-1] # ParentSeg
  THEN LET i == CHOOSE j \in 2..Len(p) :
                  /\ p[j] = ParentSeg /\ p[j-1] # ParentSeg
                  /\ \A k \in 2..(j-1) : ~(p[k] = ParentSeg /\ p[k-1] # ParentSeg)
       IN Clean(SubSeq(p, 1, i-2) \o SubSeq(p, i+1, Len(p)))
  ELSE p

Join(a, b) == Clean(a \o b)

Ext(file) == IF file = <<>> THEN "" ELSE file[Len(file)][2]

Dir(file) == IF file = <<>> THEN <<>> ELSE SubSeq(file, 1, Len(file) - 1)

IsPrefix(a, b) == Len(a) <= Len(b) /\ SubSeq(b, 1, Len(a)) = a

\* filepath.Rel for a target below base
Rel(base, target) == SubSeq(target, Len(base) + 1, Len(target))

\* one pattern segment against one name: "*.txt" is <<"*", ".txt">>
SegMatch(pat, name) ==
  IF pat[1] = "*" THEN pat[2] = name[2] ELSE pat = name

Match(pattern, file) ==
  /\ Len(pattern) = Len(file)
  /\ \A i \in 1..Len(pattern) : SegMatch(pattern[i], file[i])

\* filepath.Glob over the model's files
Glob(files, pattern) == {f \in DOMAIN files : Match(pattern, f)}

\* all proper prefixes of a path that are directories
Ancestors(file) == {SubSeq(file, 1, i) : i \in 1..(Len(file) - 1)}

\* ------------------------------------------------------------------ values
NilBytes == [nil |-> TRUE, b |-> <<>>]
Bytes(data) == [nil |-> FALSE, b |-> data]

EmptyFn == [x \in {} |-> <<>>]
NilMap == [nil |-> TRUE, m |-> EmptyFn]
MapOf(f) == [nil |-> FALSE, m |-> f]

\* the zero value of a kind
ZeroOf(kind) ==
  CASE kind = "string" -> <<>>
    [] kind = "bytes" -> NilBytes
    [] OTHER -> NilMap

\* reflect.Value.IsZero: "" for a string, nil for a slice or a map
IsZero(kind, v) ==
  CASE kind = "string" -> v = <<>>
    [] OTHER -> v.nil

\* ------------------------------------------------------------------ errors
NoErr == ""
ErrNoOutputs == "at least 1 output required"
ErrNoValues == "at least 1 value required"
ErrNil == "cannot be nil"
ErrNotPtr == "must be a pointer"
ErrTagParse == "failed to parse struct tags"
ErrCodecNotFound == "failed to get codec for file extension"
ErrDecode == "failed to unmarshal"
ErrMkdir == "failed to create dir"
ErrWrite == "failed to write file"
ErrDelete == "failed to delete file"
ErrMismatch == "mismatch"
Panic == "panic"

\* ------------------------------------------------------------------ codecs
VARIABLE registry  \* the package variable registry: extension -> codec

\* codec.init registers .json, .yaml and .yml
Registry == {".json", ".yaml", ".yml"}

\* the codecs init registers for them
Defaults == [ext \in Registry |-> IF ext = ".json" THEN "JSONCodec" ELSE "YAMLCodec"]

ErrNoCodec == "no codec registered"

\* codec.Get: [codec, err]
Get(ext) ==
  IF ext \in DOMAIN registry THEN [codec |-> registry[ext], err |-> NoErr]
  ELSE [codec |-> "nil", err |-> ErrNoCodec]

\* codec.Get as loadFile and encode use it
CodecFound(ext) == Get(ext).err = NoErr

\* keys of structured maps, in the order encoding/json sorts them
KeyOrder == <<"j", "k">>

Quote == "'"

Punct == {"{", "}", ":", ",", "null", Quote}

RECURSIVE MarshalPairs(_, _, _)
MarshalPairs(m, i, first) ==
  IF i > Len(KeyOrder) THEN <<>>
  ELSE LET k == KeyOrder[i] IN
       IF k \in DOMAIN m
       THEN (IF first THEN <<>> ELSE <<",">>)
              \o <<k, ":", Quote>> \o m[k] \o <<Quote>>
              \o MarshalPairs(m, i + 1, FALSE)
       ELSE MarshalPairs(m, i + 1, first)

\* Codec.Marshal of a map[string]string: {k:'v',...}, keys sorted
Marshal(v) ==
  IF v.nil THEN <<"null">> ELSE <<"{">> \o MarshalPairs(v.m, 1, TRUE) \o <<"}">>

\* m[k] = v
Put(m, k, v) == [x \in DOMAIN m \cup {k} |-> IF x = k THEN v ELSE m[x]]

\* where the quote that closes the value of the first member is
CloseQuote(toks) ==
  CHOOSE x \in 4..Len(toks) : toks[x] = Quote /\ \A y \in 4..(x - 1) : toks[y] # Quote

\* the members of an object, after the opening brace: [ok, m]
RECURSIVE ParsePairs(_, _)
RECURSIVE ParseMember(_, _, _)
ParsePairs(toks, acc) ==
  IF Len(toks) < 4 \/ toks[1] \in Punct \/ toks[2] # ":" \/ toks[3] # Quote
     \/ ~(\E c \in 4..Len(toks) : toks[c] = Quote)
  THEN [ok |-> FALSE, m |-> acc]
  ELSE ParseMember(toks, acc, CloseQuote(toks))

\* the member k:'v' that ends at c, then the members after a comma
ParseMember(toks, acc, c) ==
  IF \E y \in 4..(c - 1) : toks[y] \in Punct THEN [ok |-> FALSE, m |-> acc]
  ELSE IF Len(toks) = c
  THEN [ok |-> TRUE, m |-> Put(acc, toks[1], SubSeq(toks, 4, c - 1))]
  ELSE IF toks[c + 1] = ","
  THEN ParsePairs(SubSeq(toks, c + 2, Len(toks)),
                  Put(acc, toks[1], SubSeq(toks, 4, c - 1)))
  ELSE [ok |-> FALSE, m |-> acc]

\* an object decoded into the map target: null resets it, a failure keeps it
decoded(r, target) == [ok |-> r.ok, v |-> IF r.ok THEN MapOf(r.m) ELSE target]

\* Codec.Unmarshal into a target that already holds a value: an object
\* overwrites or adds its keys, null resets the map to nil: [ok, v]
Unmarshal(data, target) ==
  IF data = <<"null">> THEN [ok |-> TRUE, v |-> NilMap]
  ELSE IF Len(data) < 2 \/ data[1] # "{" \/ data[Len(data)] # "}"
  THEN [ok |-> FALSE, v |-> target]
  ELSE IF Len(data) = 2 THEN [ok |-> TRUE, v |-> MapOf(target.m)]
  ELSE decoded(ParsePairs(SubSeq(data, 2, Len(data) - 1), target.m), target)

\* ------------------------------------------------------------------- order
\* the strings of the model in byte order, as sort.Strings orders them
Sorted == <<"", "*", "-", "..", ".json", ".log", ".only", ".skip", ".txt",
            ".unknown", "A", "B", "U", "a", "b", "j", "k", "m", "n", "s", "sub",
            "u", "x", "y", "z">>

Rank(s) == CHOOSE i \in 1..Len(Sorted) : Sorted[i] = s

NameLess(a, b) ==
  \/ Rank(a[1]) < Rank(b[1])
  \/ a[1] = b[1] /\ Rank(a[2]) < Rank(b[2])

RECURSIVE PathLess(_, _)
PathLess(p, q) ==
  IF p = <<>> THEN q # <<>>
  ELSE IF q = <<>> THEN FALSE
  ELSE IF p[1] = q[1] THEN PathLess(Tail(p), Tail(q))
  ELSE NameLess(p[1], q[1])

\* the paths of a set in ascending order
RECURSIVE SortPaths(_)
SortPaths(S) ==
  IF S = {} THEN <<>>
  ELSE LET lo == CHOOSE p \in S : \A q \in S \ {p} : PathLess(p, q)
       IN <<lo>> \o SortPaths(S \ {lo})

\* every ordering of a set, as sequences
RECURSIVE Orderings(_)
Orderings(S) ==
  IF S = {} THEN {<<>>}
  ELSE UNION {{<<x>> \o r : r \in Orderings(S \ {x})} : x \in S}

\* ------------------------------------------------------------ struct types
\* one struct field: its Go kind (string, bytes or map[string]elem) and its
\* testdata tag (tagOk: the tag string parses; hasTag: it has a testdata key)
\* kind "intmap" is a map whose keys are not strings (map[int]string)
Fld(name, kind, elem, tagName, opts) ==
  [name |-> name, kind |-> kind, elem |-> elem, tagOk |-> TRUE,
   hasTag |-> TRUE, tagName |-> tagName, opts |-> opts]

isString(kind) == kind = "string"

isBytes(kind) == kind = "bytes"

isMap(kind) == kind = "map"

\* ------------------------------------------------------------------ loader
\* the end of loadFile: the decoded value is stored, a failure leaves value
stored(r, value) ==
  IF r.ok THEN [err |-> NoErr, v |-> r.v] ELSE [err |-> ErrDecode, v |-> value]

\* loadFile decoding into a new value instead of the field's current one
loadFileIntoNew(files, file, kind, value) ==
  IF file \notin DOMAIN files THEN [err |-> NoErr, v |-> value]
  ELSE IF isBytes(kind) THEN [err |-> NoErr, v |-> Bytes(files[file])]
  ELSE IF isString(kind) THEN [err |-> NoErr, v |-> files[file]]
  ELSE IF ~CodecFound(Ext(file)) THEN [err |-> ErrCodecNotFound, v |-> value]
  ELSE stored(Unmarshal(files[file], ZeroOf(kind)), value)

\* loadFile with an openTagFile that reports a missing file
loadFileNeedsFile(files, file, kind, value) ==
  IF file \notin DOMAIN files THEN [err |-> "file does not exist", v |-> value]
  ELSE IF isBytes(kind) THEN [err |-> NoErr, v |-> Bytes(files[file])]
  ELSE IF isString(kind) THEN [err |-> NoErr, v |-> files[file]]
  ELSE IF ~CodecFound(Ext(file)) THEN [err |-> ErrCodecNotFound, v |-> value]
  ELSE stored(Unmarshal(files[file], value), value)

\* openTagFile and loadFile: [err, v]
loadFile(files, file, kind, value) ==
  IF file \notin DOMAIN files THEN [err |-> NoErr, v |-> value]
  ELSE IF isBytes(kind) THEN [err |-> NoErr, v |-> Bytes(files[file])]
  ELSE IF isString(kind) THEN [err |-> NoErr, v |-> files[file]]
  ELSE IF ~CodecFound(Ext(file)) THEN [err |-> ErrCodecNotFound, v |-> value]
  ELSE stored(Unmarshal(files[file], value), value)

\* the loop of loadDirInput over the matches of the glob: every match is
\* loaded into a new element and put in m under its path relative to input
RECURSIVE loadMatches(_, _, _, _, _, _)
RECURSIVE setMapIndex(_, _, _, _, _, _, _)
loadMatches(files, input, field, matches, i, m) ==
  IF i > Len(matches) THEN [err |-> NoErr, v |-> m]
  ELSE setMapIndex(files, input, field, matches, i, m,
                   loadFile(files, matches[i], field.elem, ZeroOf(field.elem)))

setMapIndex(files, input, field, matches, i, m, r) ==
  IF r.err # NoErr THEN [err |-> r.err, v |-> m]
  ELSE loadMatches(files, input, field, matches, i + 1,
                   Put(m, Rel(input, matches[i]), r.v))

\* the map made for the directory is stored even when the glob matched
\* nothing
setAlways(r, value) ==
  IF r.err # NoErr THEN [err |-> r.err, v |-> value]
  ELSE [err |-> NoErr, v |-> MapOf(r.v)]

\* if m.Len() > 0 { value.Set(m) }
setIfAny(r, value) ==
  IF r.err # NoErr THEN [err |-> r.err, v |-> value]
  ELSE IF DOMAIN r.v # {} THEN [err |-> NoErr, v |-> MapOf(r.v)]
  ELSE [err |-> NoErr, v |-> value]

\* loadExplode without the m.Len() > 0 test
loadExplodeAlwaysSets(files, input, field, value) ==
  setAlways(loadMatches(files, input, field,
                        SortPaths(Glob(files, Join(input, field.tagName))), 1, <<>>),
            value)

\* the explode branch of loadDirInput: [err, v]
loadExplode(files, input, field, value) ==
  setIfAny(loadMatches(files, input, field,
                       SortPaths(Glob(files, Join(input, field.tagName))), 1, <<>>),
           value)

\* loadDirInput reporting a missing file unless the tag says optional
loadDirInputOptional(files, input, field, value) ==
  IF isMap(field.kind) /\ "explode" \in field.opts
  THEN loadExplode(files, input, field, value)
  ELSE IF Join(input, field.tagName) \notin DOMAIN files /\ "optional" \notin field.opts
  THEN [err |-> "file does not exist", v |-> value]
  ELSE loadFile(files, Join(input, field.tagName), field.kind, value)

\* loadDirInput taking the explode option on a field of any kind
loadDirInputAnyKind(files, input, field, value) ==
  IF "explode" \in field.opts
  THEN loadExplode(files, input, field, value)
  ELSE loadFile(files, Join(input, field.tagName), field.kind, value)

\* loadDirInput: [err, v]
loadDirInput(files, input, field, value) ==
  IF isMap(field.kind) /\ "explode" \in field.opts
  THEN loadExplode(files, input, field, value)
  ELSE loadFile(files, Join(input, field.tagName), field.kind, value)

\* loadInputs returning from inside the loop: only the first directory is read
loadInputsFirstOnly(files, inputs, i, field, value) ==
  IF i > Len(inputs) THEN [err |-> NoErr, v |-> value]
  ELSE loadDirInput(files, inputs[i], field, value)

\* the loop of loadDir over the input directories, for one field: [err, v]
RECURSIVE loadInputs(_, _, _, _, _)
RECURSIVE nextInput(_, _, _, _, _)
loadInputs(files, inputs, i, field, value) ==
  IF i > Len(inputs) THEN [err |-> NoErr, v |-> value]
  ELSE nextInput(files, inputs, i, field,
                 loadDirInput(files, inputs[i], field, value))

\* if err != nil { return err }, else on to the next directory
nextInput(files, inputs, i, field, r) ==
  IF r.err # NoErr THEN r
  ELSE loadInputs(files, inputs, i + 1, field, r.v)

\* the loop of loadDir over the fields of the struct: [err, v], v the struct
RECURSIVE loadFields(_, _, _, _, _)
RECURSIVE nextField(_, _, _, _, _, _)
\* the loop of loadDir taking "-" for a file name
loadFieldsReadsDash(files, inputs, typ, i, val) ==
  IF i > Len(typ) THEN [err |-> NoErr, v |-> val]
  ELSE IF ~typ[i].tagOk THEN [err |-> ErrTagParse, v |-> val]
  ELSE IF ~typ[i].hasTag \/ typ[i].tagName = <<>>
  THEN loadFields(files, inputs, typ, i + 1, val)
  ELSE nextField(files, inputs, typ, i, val,
                 loadInputs(files, inputs, 1, typ[i], val[i]))

loadFields(files, inputs, typ, i, val) ==
  IF i > Len(typ) THEN [err |-> NoErr, v |-> val]
  ELSE IF ~typ[i].tagOk THEN [err |-> ErrTagParse, v |-> val]
  ELSE IF ~typ[i].hasTag \/ typ[i].tagName = <<>> \/ typ[i].tagName = <<N("-", "")>>
  THEN loadFields(files, inputs, typ, i + 1, val)
  ELSE nextField(files, inputs, typ, i, val,
                 loadInputs(files, inputs, 1, typ[i], val[i]))

\* the field holds what the directories read so far gave it
nextField(files, inputs, typ, i, val, r) ==
  IF r.err # NoErr THEN [err |-> r.err, v |-> [val EXCEPT ![i] = r.v]]
  ELSE loadFields(files, inputs, typ, i + 1, [val EXCEPT ![i] = r.v])

\* arguments of type any: nil, a struct passed by value, a pointer to a
\* struct, a pointer to something that is not a struct (new(int))
NilArg == [k |-> "nil", v |-> <<>>]
ValArg(v) == [k |-> "value", v |-> v]
PtrArg(v) == [k |-> "ptr", v |-> v]
IntPtrArg == [k |-> "intptr", v |-> <<>>]

\* the struct output points to, after loadDir
pointee(r) == [err |-> r.err, out |-> PtrArg(r.v)]

\* loadDir: [err, out], out the argument with the struct it points to;
\* typ.NumField() panics when the pointer is not to a struct
loadDir(files, inputs, typ, output) ==
  IF output.k = "nil" THEN [err |-> ErrNil, out |-> output]
  ELSE IF output.k = "value" THEN [err |-> ErrNotPtr, out |-> output]
  ELSE IF output.k = "intptr" THEN [err |-> Panic, out |-> output]
  ELSE pointee(loadFields(files, inputs, typ, 1, output.v))

\* the loop of loadDirs over the outputs: [err, outs]
RECURSIVE loadOutputs(_, _, _, _, _)
RECURSIVE nextOutput(_, _, _, _, _, _)
loadOutputs(files, inputs, typ, outputs, i) ==
  IF i > Len(outputs) THEN [err |-> NoErr, outs |-> outputs]
  ELSE nextOutput(files, inputs, typ, outputs, i,
                  loadDir(files, inputs, typ, outputs[i]))

nextOutput(files, inputs, typ, outputs, i, r) ==
  IF r.err # NoErr THEN [err |-> r.err, outs |-> [outputs EXCEPT ![i] = r.out]]
  ELSE loadOutputs(files, inputs, typ, [outputs EXCEPT ![i] = r.out], i + 1)

\* loadDirs without the test of len(outputs)
loadDirsAnyNumber(files, inputs, typ, outputs) ==
  loadOutputs(files, inputs, typ, outputs, 1)

\* loadDirs: [err, outs]
loadDirs(files, inputs, typ, outputs) ==
  IF Len(outputs) = 0 THEN [err |-> ErrNoOutputs, outs |-> outputs]
  ELSE loadOutputs(files, inputs, typ, outputs, 1)

\* ------------------------------------------------------------------- saver
\* encode looking up the codec before it tests for the zero value
encodeCodecFirst(file, kind, val) ==
  IF isBytes(kind) THEN [err |-> NoErr, data |-> val.b]
  ELSE IF isString(kind) THEN [err |-> NoErr, data |-> val]
  ELSE IF ~CodecFound(Ext(file)) THEN [err |-> ErrCodecNotFound, data |-> <<>>]
  ELSE IF IsZero(kind, val) THEN [err |-> NoErr, data |-> <<>>]
  ELSE [err |-> NoErr, data |-> Marshal(val)]

\* encode: [err, data]; a zero value encodes to no data
encode(file, kind, val) ==
  IF IsZero(kind, val) THEN [err |-> NoErr, data |-> <<>>]
  ELSE IF isBytes(kind) THEN [err |-> NoErr, data |-> val.b]
  ELSE IF isString(kind) THEN [err |-> NoErr, data |-> val]
  ELSE IF ~CodecFound(Ext(file)) THEN [err |-> ErrCodecNotFound, data |-> <<>>]
  ELSE [err |-> NoErr, data |-> Marshal(val)]

\* the disk as the saver sees it: the files, the directories, what was done
\* so far in this call (files written and removed, golden files loaded and
\* compared), and the error that stopped it
Disk(files, ds) == [files |-> files, dirs |-> ds, ops |-> <<>>, err |-> NoErr]

\* os.Remove: a missing file is reported as not-exist, which saveFile ignores
osRemove(d, file) ==
  IF file \in d.dirs
  THEN IF \E f \in DOMAIN d.files : IsPrefix(file, f)
          \/ \E x \in d.dirs : x # file /\ IsPrefix(file, x)
       THEN [d EXCEPT !.err = ErrDelete]
       ELSE [d EXCEPT !.dirs = @ \ {file}, !.ops = Append(@, <<"remove", file>>)]
  ELSE [d EXCEPT !.files = [f \in DOMAIN @ \ {file} |-> @[f]],
                 !.ops = Append(@, <<"remove", file>>)]

\* os.MkdirAll then os.WriteFile
osWrite(d, file, data) ==
  IF \E a \in Ancestors(file) : a \in DOMAIN d.files
  THEN [d EXCEPT !.err = ErrMkdir]
  ELSE IF file \in d.dirs
  THEN [d EXCEPT !.dirs = @ \cup Ancestors(file), !.err = ErrWrite]
  ELSE [d EXCEPT !.dirs = @ \cup Ancestors(file),
                 !.files = [f \in DOMAIN @ \cup {file} |->
                              IF f = file THEN data ELSE @[f]],
                 !.ops = Append(@, <<"write", file>>)]

\* saveFile after encode: no data removes the file, any data writes it
removeOrWrite(d, file, e) ==
  IF e.err # NoErr THEN [d EXCEPT !.err = e.err]
  ELSE IF Len(e.data) = 0 THEN osRemove(d, file)
  ELSE osWrite(d, file, e.data)

\* saveFile
saveFile(d, file, kind, val) == removeOrWrite(d, file, encode(file, kind, val))

\* the MapRange loop of saveDirField, over the keys in the order keys
RECURSIVE saveEntries(_, _, _, _, _, _)
RECURSIVE nextEntry(_, _, _, _, _, _)
saveEntries(d, dir, field, value, keys, i) ==
  IF i > Len(keys) THEN d
  ELSE nextEntry(saveFile(d, Join(dir, keys[i]), field.elem, value.m[keys[i]]),
                 dir, field, value, keys, i)

nextEntry(r, dir, field, value, keys, i) ==
  IF r.err # NoErr THEN r ELSE saveEntries(r, dir, field, value, keys, i + 1)

\* saveDirField; keys: the order in which MapRange yields the map's keys
saveDirField(d, dir, field, value, keys) ==
  IF isMap(field.kind) /\ "explode" \in field.opts
  THEN saveEntries(d, dir, field, value, keys, 1)
  ELSE saveFile(d, Join(dir, field.tagName), field.kind, value)

\* the loop of saveDir over the fields; order[i]: the MapRange order of field i
RECURSIVE saveFields(_, _, _, _, _, _)
RECURSIVE nextSaved(_, _, _, _, _, _)
saveFields(d, dir, typ, val, order, i) ==
  IF i > Len(typ) THEN d
  ELSE IF ~typ[i].tagOk THEN [d EXCEPT !.err = ErrTagParse]
  ELSE IF ~typ[i].hasTag \/ typ[i].tagName = <<>> \/ typ[i].tagName = <<N("-", "")>>
  THEN saveFields(d, dir, typ, val, order, i + 1)
  ELSE nextSaved(saveDirField(d, dir, typ[i], val[i], order[i]),
                 dir, typ, val, order, i)

nextSaved(r, dir, typ, val, order, i) ==
  IF r.err # NoErr THEN r ELSE saveFields(r, dir, typ, val, order, i + 1)

\* saveDir
saveDir(d, dir, typ, input, order) ==
  IF input.k = "nil" THEN [d EXCEPT !.err = ErrNil]
  ELSE IF input.k = "value" THEN [d EXCEPT !.err = ErrNotPtr]
  ELSE IF input.k = "intptr" THEN [d EXCEPT !.err = Panic]
  ELSE saveFields(d, dir, typ, input.v, order, 1)

\* the assertion reads the golden files of dir, or compares what it read
noted(d, what, dir) == [d EXCEPT !.ops = Append(@, <<what, dir>>)]

\* the zero struct of a type: reflect.New(typ)
ZeroStruct(typ) == [i \in 1..Len(typ) |-> ZeroOf(typ[i].kind)]

\* a comparison that takes nil and empty slices and maps for equal
cmpEqualEmpties(expected, actual) ==
  /\ Len(expected) = Len(actual)
  /\ \A i \in 1..Len(expected) :
       \/ expected[i] = actual[i]
       \/ /\ DOMAIN expected[i] = {"nil", "b"} /\ DOMAIN actual[i] = {"nil", "b"}
          /\ expected[i].b = actual[i].b
       \/ /\ DOMAIN expected[i] = {"nil", "m"} /\ DOMAIN actual[i] = {"nil", "m"}
          /\ expected[i].m = actual[i].m

\* cmp.Equal of two structs of the same type: nil and empty differ
cmpEqual(expected, actual) == expected = actual

\* the loop of assert over the values; orders[i]: the MapRange orders used
\* when value i is saved
RECURSIVE assertValues(_, _, _, _, _, _, _)
RECURSIVE afterSave(_, _, _, _, _, _, _)
RECURSIVE afterLoad(_, _, _, _, _, _, _, _)
\* the loop of assert saving each value whatever the flag says
assertAlwaysSaves(d, dir, typ, values, update, orders, i) ==
  IF i > Len(values) THEN d
  ELSE afterSave(saveDir(d, dir, typ, values[i], orders[i]),
                 dir, typ, values, update, orders, i)

\* the loop of assert without its update branch
assertAlwaysCompares(d, dir, typ, values, update, orders, i) ==
  IF i > Len(values) THEN d
  ELSE IF values[i].k # "ptr" THEN [d EXCEPT !.err = Panic]
  ELSE afterLoad(noted(d, "load", dir), dir, typ, values, update, orders, i,
                 loadDirs(d.files, <<dir>>, typ, <<PtrArg(ZeroStruct(typ))>>))

assertValues(d, dir, typ, values, update, orders, i) ==
  IF i > Len(values) THEN d
  ELSE IF update
  THEN afterSave(saveDir(d, dir, typ, values[i], orders[i]),
                 dir, typ, values, update, orders, i)
  ELSE IF values[i].k # "ptr" THEN [d EXCEPT !.err = Panic]
  ELSE afterLoad(noted(d, "load", dir), dir, typ, values, update, orders, i,
                 loadDirs(d.files, <<dir>>, typ, <<PtrArg(ZeroStruct(typ))>>))

\* update mode: if err != nil { return err }; continue
afterSave(r, dir, typ, values, update, orders, i) ==
  IF r.err # NoErr THEN r
  ELSE assertValues(r, dir, typ, values, update, orders, i + 1)

\* the comparison noting a mismatch and going on to the next value
afterLoadGoesOn(d, dir, typ, values, update, orders, i, l) ==
  IF l.err # NoErr THEN [d EXCEPT !.err = l.err]
  ELSE IF ~cmpEqual(l.outs[1].v, values[i].v)
  THEN assertValues([noted(d, "compare", dir) EXCEPT !.err = ErrMismatch],
                    dir, typ, values, update, orders, i + 1)
  ELSE assertValues(noted(d, "compare", dir), dir, typ, values, update, orders, i + 1)

\* compare mode: expected, loaded from dir, against actual
afterLoad(d, dir, typ, values, update, orders, i, l) ==
  IF l.err # NoErr THEN [d EXCEPT !.err = l.err]
  ELSE IF ~cmpEqual(l.outs[1].v, values[i].v)
  THEN [noted(d, "compare", dir) EXCEPT !.err = ErrMismatch]
  ELSE assertValues(noted(d, "compare", dir), dir, typ, values, update, orders, i + 1)

\* assert
assert(d, dir, typ, values, update, orders) ==
  IF Len(values) = 0 THEN [d EXCEPT !.err = ErrNoValues]
  ELSE assertValues(d, dir, typ, values, update, orders, 1)

\* ------------------------------------------------- the struct types in use
TString == <<Fld("Input", "string", "", <<N("s", ".txt")>>, {})>>

TBytes == <<Fld("Input", "bytes", "", <<N("b", ".txt")>>, {})>>

TJSON == <<Fld("Input", "map", "string", <<N("m", ".json")>>, {})>>

TUnknown == <<Fld("Unknown", "map", "string", <<N("u", ".unknown")>>, {})>>

TUnknownOpt ==
  <<Fld("Unknown", "map", "string", <<N("u", ".unknown")>>, {"optional", "omitempty"})>>

TExplode == <<Fld("Files", "map", "string", <<N("*", ".txt")>>, {"explode"})>>

TNested ==
  <<Fld("Files", "map", "string", <<N("sub", ""), N("*", ".txt")>>, {"explode"})>>

TPair == TString \o TBytes

Types == {TString, TBytes, TJSON, TUnknown, TUnknownOpt, TExplode, TNested, TPair}

isExplode(field) == isMap(field.kind) /\ "explode" \in field.opts

\* a field without a testdata tag
Untagged(name, kind) == [Fld(name, kind, "", <<>>, {}) EXCEPT !.hasTag = FALSE]

\* a field whose tag structtag.Parse rejects
BadTag(name, kind) == [Fld(name, kind, "", <<>>, {}) EXCEPT !.tagOk = FALSE]

\* Input with a second field that has no tag, an empty tag name, or "-"
TMissing == TString \o <<Untagged("Missing", "string")>>

TEmpty == TString \o <<Fld("Missing", "string", "", <<>>, {})>>

TDashed == TString \o <<Fld("Missing", "string", "", <<N("-", "")>>, {})>>

\* Input followed by a field with a malformed tag, and the other way round
TInvalidLast == TString \o <<BadTag("Invalid", "string")>>

TInvalidFirst == <<BadTag("Invalid", "string")>> \o TString

\* the types of the single calls: those above and the ones with ignored or
\* malformed tags
CallTypes == Types \cup {TMissing, TEmpty, TDashed, TInvalidLast, TInvalidFirst}

\* the explode option on a string field and on a map with int keys, and a
\* map without it whose tag name is a pattern
TStringExplode == <<Fld("Input", "string", "", <<N("*", ".txt")>>, {"explode"})>>

TIntMapExplode == <<Fld("Files", "intmap", "string", <<N("*", ".txt")>>, {"explode"})>>

TMapStar == <<Fld("Input", "map", "string", <<N("*", ".json")>>, {})>>

\* the options the package's own test structs carry and the code never reads
Vestigial == {"optional", "omitempty", "golden"}

TStringOpts == <<Fld("Input", "string", "", <<N("s", ".txt")>>, Vestigial)>>

TJSONOpts == <<Fld("Input", "map", "string", <<N("m", ".json")>>, Vestigial)>>

TExplodeOpts ==
  <<Fld("Files", "map", "string", <<N("*", ".txt")>>, {"explode"} \cup Vestigial)>>

\* an explode field whose keys the caller chooses freely
TExplodeUp == <<Fld("Files", "map", "string", <<N("*", ".log")>>, {"explode"})>>

\* the types that differ in kind and options only
OptionTypes ==
  {TString, TJSON, TExplode, TUnknownOpt, TStringExplode, TIntMapExplode,
   TMapStar, TStringOpts, TJSONOpts, TExplodeOpts, TExplodeUp}

\* the field is one loadDir and saveDir pass over
isIgnored(field) ==
  ~field.hasTag \/ field.tagName = <<>> \/ field.tagName = <<N("-", "")>>

\* --------------------------------------------------------- input universes
\* the directory of the test case, where its golden files are kept
CaseDir == <<N("A", "")>>

\* the case directory and the shared directory
Roots == {CaseDir, <<N("B", "")>>}

\* a directory that is never created, like testdata/unknown in the tests
Unknown == <<N("U", "")>>

\* the sequences of at most n elements of S
RECURSIVE SeqsUpTo(_, _)
SeqsUpTo(S, n) ==
  IF n = 0 THEN {<<>>}
  ELSE LET shorter == SeqsUpTo(S, n - 1)
       IN shorter \cup {Append(q, x) : q \in {r \in shorter : Len(r) = n - 1},
                                       x \in S}

\* the directory lists handed to LoadDirs: a directory may be named twice
DirLists == SeqsUpTo(Roots \cup {Unknown}, MaxDirs) \ {<<>>}

Raw == {<<>>, <<"1">>, <<"2">>}

\* the functions from at most n elements of K to V
SmallFns(K, V, n) ==
  UNION {[D -> V] : D \in {X \in SUBSET K : Cardinality(X) <= n}}

\* the keys a caller puts in the map of an explode field: for *.txt one
\* that matches and one that does not, for *.log one that matches and one
\* that names a file of the parent directory
ExplodeKeys(field) ==
  IF field.tagName = <<N("*", ".txt")>>
  THEN {<<N("x", ".txt")>>, <<N("n", ".log")>>}
  ELSE IF field.tagName = <<N("*", ".log")>>
  THEN {<<N("x", ".log")>>, <<ParentSeg, N("z", ".log")>>}
  ELSE {<<N("sub", ""), N("z", ".txt")>>}

\* the values a caller may hold in a field
FieldValues(field) ==
  IF isString(field.kind) THEN Raw
  ELSE IF isBytes(field.kind) THEN {NilBytes} \cup {Bytes(b) : b \in {<<>>, <<"1">>}}
  ELSE IF isExplode(field)
  THEN {NilMap} \cup {MapOf(f) : f \in SmallFns(ExplodeKeys(field), {<<>>, <<"1">>}, MaxKeys)}
  ELSE IF field.kind = "intmap"
  THEN {NilMap} \cup {MapOf(f) : f \in SmallFns({1, 2}, {<<"1">>}, MaxKeys)}
  ELSE {NilMap} \cup {MapOf(f) : f \in SmallFns({"j", "k"}, {<<"1">>}, MaxKeys)}

RECURSIVE StructValues(_, _)
StructValues(typ, i) ==
  IF i > Len(typ) THEN {<<>>}
  ELSE {<<v>> \o rest : v \in FieldValues(typ[i]), rest \in StructValues(typ, i + 1)}

Values(typ) == StructValues(typ, 1)

\* the files that may be in a directory before the first call
DiskNames(field) ==
  IF ~field.tagOk \/ ~field.hasTag \/ field.tagName = <<>> THEN {}
  ELSE IF ~isExplode(field)
  THEN IF field.tagName[1][1] = "*"
       THEN {field.tagName, <<N("x", field.tagName[1][2])>>}
       ELSE {field.tagName}
  ELSE IF field.tagName = <<N("*", ".txt")>>
  THEN {<<N("x", ".txt")>>, <<N("y", ".txt")>>}
  ELSE IF field.tagName = <<N("*", ".log")>>
  THEN {<<N("x", ".log")>>}
  ELSE {<<N("sub", ""), N("z", ".txt")>>}

Slots(typ, roots) ==
  {Join(r, n) : r \in roots, n \in UNION {DiskNames(typ[i]) : i \in 1..Len(typ)}}

\* what such a file may hold: any bytes, for a .json file also encoded maps
Encoded ==
  {Marshal(MapOf(EmptyFn))}
    \cup {Marshal(MapOf([x \in {k} |-> v])) :
            k \in {"j", "k"}, v \in {<<"1">>, <<"2">>}} 

DiskContents == Raw \cup Encoded

ContentsOf(file) == IF Ext(file) \in Registry THEN Encoded \cup {<<>>} ELSE Raw

InitialDisks(typ, roots) ==
  UNION {{f \in [S -> DiskContents] : \A p \in S : f[p] \in ContentsOf(p)} :
           S \in {X \in SUBSET Slots(typ, roots) : Cardinality(X) <= MaxInitFiles}}

\* the orders in which MapRange may yield the keys of each explode field
RECURSIVE FieldOrders(_, _, _)
FieldOrders(typ, val, i) ==
  IF i > Len(typ) THEN {<<>>}
  ELSE {<<o>> \o rest :
          o \in (IF isExplode(typ[i]) THEN Orderings(DOMAIN val[i].m) ELSE {<<>>}),
          rest \in FieldOrders(typ, val, i + 1)}

ArgOrders(typ, arg) == IF arg.k = "ptr" THEN FieldOrders(typ, arg.v, 1) ELSE {<<>>}

\* ------------------------------------------------------------------- state
VARIABLES
  typ,           \* the annotated struct type of the test
  fs,            \* the files on disk: path -> content
  dirs,          \* the directories on disk
  updateGolden,  \* the -update-golden flag
  last,          \* the most recent call: arguments, results, file operations
  prev,          \* the call before it, kept while the calls stay on one
                 \* directory with the same values or a fresh struct (the
                 \* save-then-reload pattern of the tests)
  listing,       \* what os.ReadDir finds: directory -> its entries
  shared,        \* TestSuite.SharedDir, <<>> when not set
  pc,            \* where TestSuite.Run is: idle, running, done or fatal
  hasOnly,       \* Run's local hasOnly
  testCases,     \* Run's local testCases: name -> TestCase
  pending,       \* the names the range over testCases has yet to yield
  log,           \* the sub-tests in the order t.Run ran them
  loopVar,       \* testCase, the variable of Run's range loop: one variable
                 \* for all iterations
  paused,        \* the sub-tests that called t.Parallel and wait for Run's
                 \* caller to return, each with the TestCase it was passed
  resumed,       \* the paused sub-tests that went on, in that order, with
                 \* the TestCase each then sees
  registered,    \* the Register calls so far, oldest first
  got            \* the most recent Get: its argument, its results, and how
                 \* many Register calls came before it

\* the variables of Load, Save and the assertion
golden == <<typ, fs, dirs, updateGolden, last, prev>>

\* the variables of the suite runner
suite == <<listing, shared, pc, hasOnly, testCases, pending, log,
           loopVar, paused, resumed>>

\* the variables of the codec registry
codecs == <<registry, registered, got>>

vars == <<typ, fs, dirs, updateGolden, last, prev,
          listing, shared, pc, hasOnly, testCases, pending, log,
          loopVar, paused, resumed,
          registry, registered, got>>

NoGet == [ext |-> "", codec |-> "nil", err |-> NoErr, at |-> 0]

\* the registry as codec.init leaves it
NoRegister ==
  /\ registry = Defaults
  /\ registered = <<>>
  /\ got = NoGet

\* the zero TestCase
NoCase == [Name |-> <<"", "">>, Skip |-> FALSE, Only |-> FALSE, Dir |-> <<>>,
           SharedDir |-> <<>>]

\* no sub-test has run
NoSubTest ==
  /\ loopVar = NoCase
  /\ paused = {}
  /\ resumed = <<>>

\* no suite is set up
NoSuite ==
  /\ NoSubTest
  /\ listing = <<>>
  /\ shared = <<>>
  /\ pc = "idle"
  /\ hasOnly = FALSE
  /\ testCases = <<>>
  /\ pending = {}
  /\ log = <<>>

NoCall == [op |-> "none", dirs |-> <<>>, update |-> FALSE, in |-> <<>>,
           out |-> <<>>, err |-> NoErr, ops |-> <<>>]

InitWith(types, roots) ==
  /\ NoRegister
  /\ typ \in types
  /\ fs \in InitialDisks(typ, roots)
  /\ dirs = UNION {Ancestors(f) : f \in DOMAIN fs}
  /\ updateGolden = FALSE
  /\ last = NoCall
  /\ prev = NoCall
  /\ NoSuite

InitOver(roots) == InitWith(Types, roots)

\* any files in the case directory
Init == InitOver({CaseDir})

\* any files in the case directory and the shared directory
LoaderInit == InitOver(Roots)

\* the call re-reads or re-saves what the last call asserted or saved: it names
\* the directory of that call, with a fresh struct or, for an assertion, with
\* the same values
Follows(call) ==
  /\ last.op \in {"Save", "Assert"}
  /\ Len(last.in) = 1
  /\ call.dirs = last.dirs
  /\ \/ call.in = <<PtrArg(ZeroStruct(typ))>>
     \/ call.in = last.in /\ call.op = "Assert"

Record(call) ==
  /\ last' = call
  /\ prev' = IF Follows(call) THEN last ELSE NoCall

\* the outputs a caller hands to Load
LoadArgs == {<<PtrArg(v)>> : v \in Values(typ)}

\* outputs that are none, nil, not a pointer, or more than one, the second
\* of them nil or not a pointer
OddArgs ==
  {<<>>, <<NilArg>>, <<ValArg(ZeroStruct(typ))>>,
   <<PtrArg(ZeroStruct(typ)), PtrArg(ZeroStruct(typ))>>,
   <<PtrArg(ZeroStruct(typ)), NilArg>>,
   <<PtrArg(ZeroStruct(typ)), ValArg(ZeroStruct(typ))>>}

\* the call is over: r holds the error it reports and what it left behind
Loaded(inputs, outputs, r) ==
  /\ Record([op |-> "Load", dirs |-> inputs, update |-> FALSE,
             in |-> outputs, out |-> r.outs, err |-> r.err, ops |-> <<>>])
  /\ UNCHANGED <<typ, fs, dirs, updateGolden>>
  /\ UNCHANGED suite
  /\ UNCHANGED codecs

Saved(op, dir, update, values, r) ==
  /\ fs' = r.files
  /\ dirs' = r.dirs
  /\ Record([op |-> op, dirs |-> <<dir>>, update |-> update,
             in |-> values, out |-> values, err |-> r.err, ops |-> r.ops])
  /\ UNCHANGED <<typ, updateGolden>>
  /\ UNCHANGED suite
  /\ UNCHANGED codecs

\* loadDirs as called by Load and LoadDirs; the disk is only read
DoLoad(inputs, outputs) == Loaded(inputs, outputs, loadDirs(fs, inputs, typ, outputs))

\* Load(t, dir, values...); the loader only reads the disk, so one call on
\* each disk shows all it does
Load ==
  /\ last = NoCall
  /\ \E dir \in Roots \cup {Unknown}, outputs \in LoadArgs \cup OddArgs :
       DoLoad(<<dir>>, outputs)

\* LoadDirs(t, dirs, values...)
LoadDirs ==
  /\ last = NoCall
  /\ \E inputs \in DirLists, outputs \in LoadArgs \cup OddArgs :
       DoLoad(inputs, outputs)

\* saveDir(dir, input)
Save ==
  \E dir \in {CaseDir}, v \in Values(typ) :
    \E order \in FieldOrders(typ, v, 1) :
      Saved("Save", dir, TRUE, <<PtrArg(v)>>,
            saveDir(Disk(fs, dirs), dir, typ, PtrArg(v), order))

\* the values a caller hands to the assertion
AssertArgs == {<<PtrArg(v)>> : v \in Values(typ)} \cup {<<>>}

RECURSIVE ValueOrders(_, _)
ValueOrders(values, i) ==
  IF i > Len(values) THEN {<<>>}
  ELSE {<<o>> \o rest : o \in ArgOrders(typ, values[i]),
                        rest \in ValueOrders(values, i + 1)}

\* the exported assertion: assert(dir, values...) under the current flag
assertCall ==
  \E dir \in {CaseDir}, values \in AssertArgs :
    \E orders \in ValueOrders(values, 1) :
      Saved("Assert", dir, updateGolden, values,
            assert(Disk(fs, dirs), dir, typ, values, updateGolden, orders))

\* the flag is set from the command line, and by the tests around a call
SetUpdateGolden ==
  /\ updateGolden' = ~updateGolden
  /\ UNCHANGED <<typ, fs, dirs, last, prev>>
  /\ UNCHANGED suite
  /\ UNCHANGED codecs

\* Load(t, dir, v) with v a new struct, as the tests reload what was saved
LoadFresh == \E dir \in {CaseDir} : DoLoad(<<dir>>, <<PtrArg(ZeroStruct(typ))>>)

\* the golden-file workflow: save or assert, reload, switch the flag
Next == LoadFresh \/ Save \/ assertCall \/ SetUpdateGolden

Spec == Init /\ [][Next]_vars

\* TestCase: a test case of a suite, with its own and its shared directory
TestCase(name, skip, only, dir, sharedDir) ==
  [Name |-> name, Skip |-> skip, Only |-> only, Dir |-> dir, SharedDir |-> sharedDir]

\* TestCase.Load with the directories the other way round
TestCaseLoadDirFirst(files, c, t, values) ==
  IF c.SharedDir # <<>> THEN loadDirs(files, <<c.Dir, c.SharedDir>>, t, values)
  ELSE loadDirs(files, <<c.Dir>>, t, values)

\* TestCase.Load: LoadDirs over SharedDir then Dir, or Load from Dir
TestCaseLoad(files, c, t, values) ==
  IF c.SharedDir # <<>> THEN loadDirs(files, <<c.SharedDir, c.Dir>>, t, values)
  ELSE loadDirs(files, <<c.Dir>>, t, values)

\* the test cases a test function may be handed
LoadCases ==
  {TestCase(N("a", ""), FALSE, FALSE, dir, sharedDir) :
     dir \in Roots, sharedDir \in {<<>>} \cup Roots \cup {Unknown}}

\* c.Load(t, values...)
LoadCase ==
  /\ last = NoCall
  /\ \E c \in LoadCases, outputs \in LoadArgs :
       LET r == TestCaseLoad(fs, c, typ, outputs)
       IN /\ Record([op |-> "TestCase.Load", dirs |-> <<c.SharedDir, c.Dir>>,
                     update |-> FALSE, in |-> outputs, out |-> r.outs,
                     err |-> r.err, ops |-> <<>>])
          /\ UNCHANGED <<typ, fs, dirs, updateGolden>>
          /\ UNCHANGED suite
          /\ UNCHANGED codecs

\* the loader alone, over every disk, directory list and output
LoaderNext == Load \/ LoadDirs \/ LoadCase

LoaderSpec == LoaderInit /\ [][LoaderNext]_vars

\* the batches of values handed to one assertion
BatchArgs ==
  {[i \in 1..Len(q) |-> PtrArg(q[i])] : q \in SeqsUpTo(Values(typ), MaxValues)}

\* the first call on a disk is a Save
FirstSave == last = NoCall /\ Save

\* the first call on a disk is an assertion of a batch of values
FirstAssert ==
  /\ last = NoCall
  /\ \E dir \in {CaseDir}, values \in BatchArgs :
       \E orders \in ValueOrders(values, 1) :
         Saved("Assert", dir, updateGolden, values,
               assert(Disk(fs, dirs), dir, typ, values, updateGolden, orders))

\* the flag is set before the call
SetFlag == last = NoCall /\ SetUpdateGolden

\* any files in the case directory, any of the struct types
CallInit == InitWith(CallTypes, {CaseDir})

\* one call at a time: every disk, every type, every argument list, both
\* settings of the flag
CallNext == Load \/ LoadDirs \/ FirstSave \/ FirstAssert \/ SetFlag

CallSpec == CallInit /\ [][CallNext]_vars

\* an argument of any sort: nil, a struct, a pointer to an int or to a struct
AnyArgs == {NilArg, ValArg(ZeroStruct(typ)), IntPtrArg} \cup {PtrArg(v) : v \in Values(typ)}

\* Load(t, dir, values...) with arguments of any sort
AnyLoad ==
  /\ last = NoCall
  /\ \E dir \in {CaseDir, Unknown}, outputs \in SeqsUpTo(AnyArgs, MaxValues) :
       DoLoad(<<dir>>, outputs)

\* Assert(t, dir, values...) with arguments of any sort
AnyAssert ==
  /\ last = NoCall
  /\ \E dir \in {CaseDir}, values \in SeqsUpTo(AnyArgs, MaxValues) :
       \E orders \in ValueOrders(values, 1) :
         Saved("Assert", dir, updateGolden, values,
               assert(Disk(fs, dirs), dir, typ, values, updateGolden, orders))

ArgInit == InitWith({TString, TPair, TExplode}, {CaseDir})

ArgNext == AnyLoad \/ AnyAssert \/ SetFlag

\* one Load or Assert at a time, with arguments of any sort
ArgSpec == ArgInit /\ [][ArgNext]_vars

\* the same calls on the types that differ in kind and options
OptionInit == InitWith(OptionTypes, {CaseDir})

\* the first call on a disk is an assertion of one value, or of none
OneAssert == last = NoCall /\ assertCall

\* one Load, Save or Assert of one value at a time
OptionNext == Load \/ FirstSave \/ OneAssert \/ SetFlag

OptionSpec == OptionInit /\ [][OptionNext]_vars

\* ----------------------------------------------------------- codec registry
\* the extensions and codecs a caller registers
Exts == {".json", ".yml", ".unknown"}

Codecs == {"JSONCodec", "YAMLCodec", "custom"}

\* a Register that keeps the codec an extension already has
RegisterIfAbsent(ext, codec) ==
  /\ Len(registered) < MaxRegisters
  /\ registry' = IF ext \in DOMAIN registry THEN registry ELSE Put(registry, ext, codec)
  /\ registered' = Append(registered, [ext |-> ext, codec |-> codec])
  /\ UNCHANGED got
  /\ UNCHANGED <<golden, suite>>

\* codec.Register: registry[ext] = codec
Register(ext, codec) ==
  /\ Len(registered) < MaxRegisters
  /\ registry' = Put(registry, ext, codec)
  /\ registered' = Append(registered, [ext |-> ext, codec |-> codec])
  /\ UNCHANGED got
  /\ UNCHANGED <<golden, suite>>

RegisterAny == \E ext \in Exts, codec \in Codecs : Register(ext, codec)

\* a call of codec.Get
GetAny ==
  \E ext \in Exts \cup {".yaml"} :
    /\ got' = [ext |-> ext, codec |-> Get(ext).codec, err |-> Get(ext).err,
               at |-> Len(registered)]
    /\ UNCHANGED <<registry, registered>>
    /\ UNCHANGED <<golden, suite>>

CodecInit ==
  /\ NoRegister
  /\ typ = TString
  /\ fs = <<>>
  /\ dirs = {}
  /\ updateGolden = FALSE
  /\ last = NoCall
  /\ prev = NoCall
  /\ NoSuite

CodecNext == RegisterAny \/ GetAny

CodecSpec == CodecInit /\ [][CodecNext]_vars

\* ------------------------------------------------------------ suite runner
\* TestSuite.Dir and the directory SharedDir names when it is set
SuiteDir == <<N("A", "")>>

SharedRoot == <<N("B", "")>>

\* parseTestDir: the name without a .skip or .only suffix, skip, only
parseTestDir(input) ==
  IF input[2] = ".skip" THEN [name |-> N(input[1], ""), skip |-> TRUE, only |-> FALSE]
  ELSE IF input[2] = ".only" THEN [name |-> N(input[1], ""), skip |-> FALSE, only |-> TRUE]
  ELSE [name |-> input, skip |-> FALSE, only |-> FALSE]

\* listSubDirs: the names of the directories in dir, in the order of
\* os.ReadDir (by file name); fatal when dir cannot be read
listSubDirs(ls, dir) ==
  IF dir = <<>> THEN [fatal |-> FALSE, list |-> <<>>]
  ELSE IF dir \notin DOMAIN ls THEN [fatal |-> TRUE, list |-> <<>>]
  ELSE LET sorted == SortPaths({<<e.name>> : e \in {x \in ls[dir] : x.isDir}})
       IN [fatal |-> FALSE, list |-> [i \in 1..Len(sorted) |-> sorted[i][1]]]

\* the loop of Run over the sub-directories of Dir: [hasOnly, testCases]
RECURSIVE scanDir(_, _, _, _)
scanDir(dir, list, i, acc) ==
  IF i > Len(list) THEN acc
  ELSE LET p == parseTestDir(list[i])
           testCase == TestCase(p.name, p.skip, p.only, Join(dir, <<list[i]>>), <<>>)
       IN scanDir(dir, list, i + 1,
                  [hasOnly |-> acc.hasOnly \/ p.only,
                   testCases |-> Put(acc.testCases, p.name, testCase)])

\* the loop of Run over the sub-directories of SharedDir
RECURSIVE scanShared(_, _, _, _, _)
scanShared(dir, sharedRoot, list, i, acc) ==
  IF i > Len(list) THEN acc
  ELSE LET p == parseTestDir(list[i])
           sharedDir == Join(sharedRoot, <<list[i]>>)
           testCase ==
             IF p.name \notin DOMAIN acc.testCases
             THEN TestCase(p.name, p.skip, p.only, Join(dir, <<list[i]>>), sharedDir)
             ELSE [acc.testCases[p.name] EXCEPT !.SharedDir = sharedDir]
       IN scanShared(dir, sharedRoot, list, i + 1,
                     [hasOnly |-> acc.hasOnly \/ p.only,
                      testCases |-> Put(acc.testCases, p.name, testCase)])

\* a sub-test body that looks at the case's own Skip only
subTestSkipOnly(anyOnly, testCase) ==
  IF testCase.Skip
  THEN [skip |-> "marked", invoked |-> FALSE]
  ELSE [skip |-> "", invoked |-> TRUE]

\* the body of a sub-test: t.Skip ends it, otherwise TestFunc is called
subTest(anyOnly, testCase) ==
  IF anyOnly /\ ~testCase.Only
  THEN [skip |-> "excluded by only", invoked |-> FALSE]
  ELSE IF testCase.Skip
  THEN [skip |-> "marked", invoked |-> FALSE]
  ELSE [skip |-> "", invoked |-> TRUE]

\* the entries a directory of the suite may hold: case directories with and
\* without suffix, and a plain file whose name ends in .only
Entries ==
  {[name |-> N(stem, suffix), isDir |-> TRUE] :
     stem \in {"a", "b"}, suffix \in {"", ".skip", ".only"}}
    \cup {[name |-> N("x", ".only"), isDir |-> FALSE]}

Listings ==
  UNION {[D -> {X \in SUBSET Entries : Cardinality(X) <= MaxEntries}] :
           D \in SUBSET {SuiteDir, SharedRoot}}

SuiteInit ==
  /\ NoRegister
  /\ typ = TString
  /\ fs = <<>>
  /\ dirs = {}
  /\ updateGolden = FALSE
  /\ last = NoCall
  /\ prev = NoCall
  /\ listing \in Listings
  /\ shared \in {<<>>, SharedRoot}
  /\ pc = "idle"
  /\ hasOnly = FALSE
  /\ testCases = <<>>
  /\ pending = {}
  /\ log = <<>>
  /\ NoSubTest

\* TestSuite.Run up to its last loop: both directories are scanned
Run ==
  /\ pc = "idle"
  /\ LET own == listSubDirs(listing, SuiteDir)
          a == scanDir(SuiteDir, own.list, 1, [hasOnly |-> FALSE, testCases |-> <<>>])
          sh == listSubDirs(listing, shared)
          b == scanShared(SuiteDir, shared, sh.list, 1, a)
     IN IF own.fatal
        THEN /\ pc' = "fatal"
             /\ UNCHANGED <<hasOnly, testCases, pending>>
        ELSE IF sh.fatal
        THEN /\ pc' = "fatal"
             /\ hasOnly' = a.hasOnly
             /\ testCases' = a.testCases
             /\ UNCHANGED pending
        ELSE /\ pc' = IF DOMAIN b.testCases = {} THEN "done" ELSE "running"
             /\ hasOnly' = b.hasOnly
             /\ testCases' = b.testCases
             /\ pending' = DOMAIN b.testCases
  /\ UNCHANGED <<listing, shared, log, loopVar, paused, resumed>>
  /\ UNCHANGED golden
  /\ UNCHANGED codecs

\* a sub-test that looks at the loop variable again when it goes on
seenOnResumeLoopVar(sub, current) == current

\* what a sub-test sees when it goes on after t.Parallel: the TestCase that
\* TestFunc was passed by value
seenOnResume(sub, current) == sub.tc

\* one turn of the range over testCases, in any order: the loop variable is
\* set and t.Run runs the sub-test up to its end or, when TestFunc is called
\* and marks it parallel, up to t.Parallel
RunCase ==
  /\ pc = "running"
  /\ \E name \in pending, parallel \in BOOLEAN :
       /\ loopVar' = testCases[name]
       /\ log' = Append(log, [name |-> loopVar'.Name, testCase |-> loopVar',
                              skip |-> subTest(hasOnly, loopVar').skip,
                              invoked |-> subTest(hasOnly, loopVar').invoked])
       /\ parallel => subTest(hasOnly, loopVar').invoked
       /\ paused' = IF parallel
                    THEN paused \cup {[name |-> loopVar'.Name, tc |-> loopVar']}
                    ELSE paused
       /\ pending' = pending \ {name}
       /\ pc' = IF pending = {name} THEN "done" ELSE "running"
  /\ UNCHANGED <<listing, shared, hasOnly, testCases, resumed>>
  /\ UNCHANGED golden
  /\ UNCHANGED codecs

\* Run has returned and a paused sub-test goes on
Resume ==
  /\ pc = "done"
  /\ \E sub \in paused :
       /\ resumed' = Append(resumed, [name |-> sub.name,
                                      tc |-> seenOnResume(sub, loopVar)])
       /\ paused' = paused \ {sub}
  /\ UNCHANGED <<listing, shared, pc, hasOnly, testCases, pending, log, loopVar>>
  /\ UNCHANGED golden
  /\ UNCHANGED codecs

SuiteNext == Run \/ RunCase \/ Resume

SuiteSpec == SuiteInit /\ [][SuiteNext]_vars

\* ------------------------------------------------------ claims: the loader
\* the last call loaded one struct through a pointer
LoadedOne == last.op = "Load" /\ Len(last.in) = 1 /\ last.in[1].k = "ptr"

\* the positions of the directory list of the last call whose directory
\* holds file
HoldingFile(file) ==
  {j \in 1..Len(last.dirs) : Join(last.dirs[j], file) \in DOMAIN fs}

LastHolding(file) ==
  CHOOSE j \in HoldingFile(file) : \A k \in HoldingFile(file) : k <= j

\* the Go value of a string or []byte field that holds the bytes data
RawValue(kind, data) == IF isBytes(kind) THEN Bytes(data) ELSE data

\* the relative paths the glob of an explode field matches in directory j
\* of the last call
MatchedKeys(field, j) ==
  {Rel(last.dirs[j], f) : f \in Glob(fs, Join(last.dirs[j], field.tagName))}

\* no directory of the last call holds anything for the field
AbsentEverywhere(field) ==
  \A j \in 1..Len(last.dirs) :
    IF isExplode(field) THEN MatchedKeys(field, j) = {}
    ELSE Join(last.dirs[j], field.tagName) \notin DOMAIN fs

\* C1: after LoadDirs over a directory list in which two or more directories
\* hold the file of a string or []byte field, the field holds the content
\* that file has in the last of these directories, whatever the length of
\* the list and whichever directories hold the file.
C1_LastDirectoryWins ==
  LoadedOne =>
    \A i \in 1..Len(typ) :
      (typ[i].kind \in {"string", "bytes"}
         /\ Cardinality(HoldingFile(typ[i].tagName)) >= 2)
      => last.out[1].v[i] =
           RawValue(typ[i].kind,
                    fs[Join(last.dirs[LastHolding(typ[i].tagName)], typ[i].tagName)])

\* the first two of three directories hold the file with different
\* contents, the third does not, the caller's field held something else, and
\* the field now holds the content of the second
C1_Witness ==
  /\ LoadedOne
  /\ typ = TString
  /\ Len(last.dirs) = 3
  /\ last.dirs[1] # last.dirs[2]
  /\ HoldingFile(typ[1].tagName) = {1, 2}
  /\ fs[Join(last.dirs[1], typ[1].tagName)] # fs[Join(last.dirs[2], typ[1].tagName)]
  /\ last.in[1].v[1] # fs[Join(last.dirs[2], typ[1].tagName)]
  /\ last.out[1].v[1] = fs[Join(last.dirs[2], typ[1].tagName)]

\* C2: when none of the directories given to Load or LoadDirs holds the file
\* of an annotated field (for an explode field: the glob matches nothing in
\* any of them, directories that do not exist included), the field keeps
\* exactly the value the caller supplied, a nil explode map stays nil, and
\* when this is so for every field the call reports no error.
C2_MissingFileKeepsValue ==
  LoadedOne =>
    /\ \A i \in 1..Len(typ) :
         AbsentEverywhere(typ[i]) => last.out[1].v[i] = last.in[1].v[i]
    /\ (\A i \in 1..Len(typ) : AbsentEverywhere(typ[i])) => last.err = NoErr

\* a nil explode map was loaded from a directory that does not exist and a
\* directory whose files the glob does not match, while the other directory
\* on disk holds a match
C2_Witness ==
  /\ LoadedOne
  /\ typ = TExplode
  /\ last.in[1].v[1] = NilMap
  /\ Len(last.dirs) = 2
  /\ Unknown \in {last.dirs[1], last.dirs[2]}
  /\ fs # <<>>
  /\ AbsentEverywhere(typ[1])
  /\ last.out[1].v[1] = NilMap
  /\ last.err = NoErr

\* C3: for an explode map field, LoadDirs([A, B], out) into a nil map yields
\* the map whose keys are the union of the relative paths the glob matches
\* in A and in B, a key matched in both taking the value it has in B.
C3_ExplodeUnion ==
  (/\ LoadedOne
   /\ last.err = NoErr
   /\ typ \in {TExplode, TNested}
   /\ Len(last.dirs) = 2
   /\ last.in[1].v[1] = NilMap
   /\ MatchedKeys(typ[1], 1) \cup MatchedKeys(typ[1], 2) # {})
  => LET out == last.out[1].v[1] IN
     /\ ~out.nil
     /\ DOMAIN out.m = MatchedKeys(typ[1], 1) \cup MatchedKeys(typ[1], 2)
     /\ \A k \in DOMAIN out.m :
          out.m[k] = IF k \in MatchedKeys(typ[1], 2)
                     THEN fs[Join(last.dirs[2], k)]
                     ELSE fs[Join(last.dirs[1], k)]

\* the last call was TestCase.Load of one struct; last.dirs holds SharedDir
\* and Dir of the test case
CaseLoaded == last.op = "TestCase.Load" /\ Len(last.in) = 1 /\ last.in[1].k = "ptr"

SharedFile(i) == Join(last.dirs[1], typ[i].tagName)

OwnFile(i) == Join(last.dirs[2], typ[i].tagName)

\* C15: TestCase.Load gives a string or []byte field the content its file
\* has in Dir; when Dir does not hold the file and SharedDir is set and
\* holds it, the content it has in SharedDir; otherwise (SharedDir empty or
\* without the file) the field stays as the caller set it.
C15_SharedThenOwn ==
  CaseLoaded =>
    \A i \in 1..Len(typ) :
      typ[i].kind \in {"string", "bytes"} =>
        last.out[1].v[i] =
          IF OwnFile(i) \in DOMAIN fs THEN RawValue(typ[i].kind, fs[OwnFile(i)])
          ELSE IF last.dirs[1] # <<>> /\ SharedFile(i) \in DOMAIN fs
          THEN RawValue(typ[i].kind, fs[SharedFile(i)])
          ELSE last.in[1].v[i]

\* Dir and SharedDir hold the file with different contents, and the field
\* has the content of Dir
C15_Witness ==
  /\ CaseLoaded /\ typ = TString /\ last.dirs[1] # <<>>
  /\ OwnFile(1) \in DOMAIN fs /\ SharedFile(1) \in DOMAIN fs
  /\ fs[OwnFile(1)] # fs[SharedFile(1)]
  /\ last.in[1].v[1] # fs[OwnFile(1)]
  /\ last.out[1].v[1] = fs[OwnFile(1)]

\* the object a JSON file holds: the map whose encoding the file is
Defined(data) ==
  CHOOSE f \in SmallFns({"j", "k"}, {<<"1">>, <<"2">>}, 2) : Marshal(MapOf(f)) = data

\* the directories of the last call whose file of field i defines key
Defining(i, key) ==
  {j \in HoldingFile(typ[i].tagName) :
     key \in DOMAIN Defined(fs[Join(last.dirs[j], typ[i].tagName)])}

LastDefining(i, key) == CHOOSE j \in Defining(i, key) : \A k \in Defining(i, key) : k <= j

\* C20: a structured field decoded from several directories accumulates:
\* each key holds the value of the last directory whose file defines it, a
\* key no file defines keeps the entry the caller supplied, and the map has
\* no other key; with no file the field stays as it was, nil included.
C20_StructuredDecodeMerges ==
  (LoadedOne /\ typ = TJSON /\ last.err = NoErr) =>
    IF HoldingFile(typ[1].tagName) = {} THEN last.out[1].v[1] = last.in[1].v[1]
    ELSE /\ ~last.out[1].v[1].nil
         /\ \A key \in {"j", "k"} :
              IF Defining(1, key) # {}
              THEN /\ key \in DOMAIN last.out[1].v[1].m
                   /\ last.out[1].v[1].m[key] =
                        Defined(fs[Join(last.dirs[LastDefining(1, key)], typ[1].tagName)])[key]
              ELSE IF key \in DOMAIN last.in[1].v[1].m
              THEN /\ key \in DOMAIN last.out[1].v[1].m
                   /\ last.out[1].v[1].m[key] = last.in[1].v[1].m[key]
              ELSE key \notin DOMAIN last.out[1].v[1].m

\* the file of A defines j, the file of B defines k, and the caller's nil
\* map ends up with both
C20_Witness ==
  /\ LoadedOne /\ typ = TJSON /\ last.err = NoErr
  /\ last.dirs = <<CaseDir, <<N("B", "")>>>>
  /\ HoldingFile(typ[1].tagName) = {1, 2}
  /\ Defining(1, "j") = {1} /\ Defining(1, "k") = {2}
  /\ last.in[1].v[1].nil
  /\ DOMAIN last.out[1].v[1].m = {"j", "k"}

\* ------------------------------------------- claims: the golden workflow
\* a successful Save of one struct was followed by a Load of its directory
\* into a new struct
SavedThenLoaded ==
  /\ prev.op = "Save" /\ prev.err = NoErr
  /\ last.op = "Load" /\ last.in = <<PtrArg(ZeroStruct(typ))>>

AllNonZero(v) == \A i \in 1..Len(typ) : ~IsZero(typ[i].kind, v[i])

\* the files the call wrote, from its file operations
Written(call) == {call.ops[i][2] : i \in {j \in 1..Len(call.ops) : call.ops[j][1] = "write"}}

\* C4: for every struct value V none of whose annotated fields is zero and
\* every initial content of dir, Save(dir, V) followed by Load of dir into a
\* new zero struct succeeds and gives a struct equal to V.
C4_RoundTrip ==
  (SavedThenLoaded /\ AllNonZero(prev.in[1].v))
  => (last.err = NoErr /\ last.out[1].v = prev.in[1].v)

\* C5: a Save whose field is the zero value removes every file an earlier
\* Save wrote for that field, and a Load into a new struct then gives the
\* zero value.
C5_ZeroValueDeletes ==
  (/\ prev.op = "Save" /\ prev.err = NoErr
   /\ last.op = "Save" /\ last.err = NoErr
   /\ Len(typ) = 1
   /\ IsZero(typ[1].kind, last.in[1].v[1]))
  => /\ Written(prev) \cap DOMAIN fs = {}
     /\ loadDirs(fs, last.dirs, typ, <<PtrArg(ZeroStruct(typ))>>).outs[1].v[1]
          = ZeroOf(typ[1].kind)

\* C6: after a successful Save, the file of a non-explode field exists if
\* and only if the field's value is not the zero value of its type.
C6_FileIffNonZero ==
  (last.op = "Save" /\ last.err = NoErr)
  => \A i \in 1..Len(typ) :
       ~isExplode(typ[i])
       => ((Join(last.dirs[1], typ[i].tagName) \in DOMAIN fs)
             <=> ~IsZero(typ[i].kind, last.in[1].v[i]))

\* C8: an assertion in update mode that succeeded, followed at once by the
\* assertion of the same value in compare mode: the second one succeeds.
C8_UpdateThenCompare ==
  (/\ prev.op = "Assert" /\ prev.update /\ prev.err = NoErr
   /\ last.op = "Assert" /\ ~last.update
   /\ last.in = prev.in)
  => last.err = NoErr

\* structured fields whose extension has no registered codec
NoCodecType == typ \in {TUnknown, TUnknownOpt}

\* C9 as stated: Load or Save of a structured field whose extension has no
\* registered codec always fails with codec-not-found.
C9_CodecMissAlwaysFails ==
  (NoCodecType /\ last.op \in {"Load", "Save"}) => last.err = ErrCodecNotFound

\* C9 amended: Load of such a field fails with codec-not-found exactly when
\* the file exists in a directory given and succeeds when it is missing; Save fails with
\* codec-not-found exactly when the value is not the zero value and succeeds
\* for the zero value; the optional and omitempty options change nothing.
C9_CodecMissWhenUsed ==
  NoCodecType =>
    /\ LoadedOne =>
         last.err = IF HoldingFile(typ[1].tagName) # {}
                    THEN ErrCodecNotFound ELSE NoErr
    /\ last.op = "Save" =>
         last.err = IF IsZero(typ[1].kind, last.in[1].v[1])
                    THEN NoErr ELSE ErrCodecNotFound

\* a field with both options was saved with a value that is not zero and
\* the save failed for want of a codec, and nothing was written
C9_Witness ==
  /\ typ = TUnknownOpt
  /\ last.op = "Save"
  /\ ~IsZero(typ[1].kind, last.in[1].v[1])
  /\ last.err = ErrCodecNotFound
  /\ last.ops = <<>>

\* C10: in compare mode the assertion of one value V succeeds if and only
\* if a new zero struct loaded from dir alone is equal to V, nil and empty
\* told apart.
C10_CompareIsFreshLoad ==
  (/\ prev.op = "Assert" /\ ~prev.update /\ Len(prev.in) = 1
   /\ last.op = "Load" /\ last.in = <<PtrArg(ZeroStruct(typ))>>)
  => (prev.err = NoErr <=> (last.err = NoErr /\ last.out[1].v = prev.in[1].v))

\* the assertion of a non-nil empty byte slice failed against a directory
\* without the file, from which the new struct loads nil
C10_Witness ==
  /\ prev.op = "Assert" /\ ~prev.update /\ Len(prev.in) = 1
  /\ last.op = "Load" /\ last.in = <<PtrArg(ZeroStruct(typ))>>
  /\ typ = TBytes
  /\ prev.in[1].v[1] = Bytes(<<>>)
  /\ last.out[1].v[1] = NilBytes
  /\ prev.err = ErrMismatch

\* ---------------------------------------------------- claims: single calls
\* the last call was the assertion, in update mode, of at least one value
Updated == last.op = "Assert" /\ last.update /\ Len(last.in) >= 1

\* what the last call did, in order: "write", "remove", "load", "compare"
Did(call) == [i \in 1..Len(call.ops) |-> call.ops[i][1]]

\* the file of field i of the type, in the directory of the last call
FileOf(i) == Join(last.dirs[1], typ[i].tagName)

\* a value of the last call holds something the registry has no codec for
NothingToEncode ==
  \A n \in 1..Len(last.in), i \in 1..Len(typ) :
    (isMap(typ[i].kind) /\ ~isExplode(typ[i]) /\ ~IsZero(typ[i].kind, last.in[n].v[i]))
      => Ext(typ[i].tagName) \in Registry

\* C11: with updateGolden set, Assert saves each value and never compares: it
\* loads no golden file and compares nothing, it fails only for what the
\* type and the values themselves make a Save fail (a malformed tag, no
\* codec for a value that is not zero), never for what dir held before, and
\* when it succeeds the file of every string field holds the field of the
\* last value, or is gone when that field is empty.
C11_UpdateOnlySaves ==
  Updated =>
    /\ \A k \in 1..Len(last.ops) : last.ops[k][1] \in {"write", "remove"}
    /\ last.err \in {NoErr, ErrTagParse, ErrCodecNotFound}
    /\ last.err = ErrTagParse => \E i \in 1..Len(typ) : ~typ[i].tagOk
    /\ last.err = ErrCodecNotFound => ~NothingToEncode
    /\ last.err = NoErr =>
         \A i \in 1..Len(typ) :
           (isString(typ[i].kind) /\ ~isIgnored(typ[i])) =>
             LET v == last.in[Len(last.in)].v[i]
             IN IF v = <<>> THEN FileOf(i) \notin DOMAIN fs
                ELSE FileOf(i) \in DOMAIN fs /\ fs[FileOf(i)] = v

\* two different strings are asserted in update mode: both are written, one
\* after the other, and the file holds the second
C11_Witness ==
  /\ Updated /\ typ = TString /\ Len(last.in) = 2
  /\ last.in[1].v # last.in[2].v
  /\ last.err = NoErr
  /\ Did(last) = <<"write", "write">>
  /\ fs[FileOf(1)] = last.in[2].v[1]

\* the last call was the assertion, in compare mode, of at least one value
Compared == last.op = "Assert" /\ ~last.update /\ Len(last.in) >= 1

\* what a Load from the directory of the last call gives a new struct
Expected == loadDirs(fs, last.dirs, typ, <<PtrArg(ZeroStruct(typ))>>)

\* the values of the last call that differ from what the directory holds
Differing ==
  {n \in 1..Len(last.in) :
     \E i \in 1..Len(typ) : Expected.outs[1].v[i] # last.in[n].v[i]}

FirstDiffering == CHOOSE n \in Differing : \A k \in Differing : n <= k

\* n times: the golden files loaded, then compared
LoadCompare(n) == [k \in 1..(2 * n) |-> IF k % 2 = 1 THEN "load" ELSE "compare"]

\* C12 as stated: in compare mode every value of the call is loaded and
\* compared, also those after a value whose comparison failed.
C12_ComparesAllValues ==
  (Compared /\ last.err = ErrMismatch) => Did(last) = LoadCompare(Len(last.in))

\* C12: in compare mode the assertion stops at the first value that differs
\* from the golden files: it reports that mismatch, and the values after it
\* are neither loaded nor compared; when no value differs all are compared
\* and the call succeeds.
C12_StopsAtFirstMismatch ==
  (Compared /\ Expected.err = NoErr) =>
    IF Differing = {}
    THEN last.err = NoErr /\ Did(last) = LoadCompare(Len(last.in))
    ELSE last.err = ErrMismatch /\ Did(last) = LoadCompare(FirstDiffering)

\* two values, the first differs from the golden file and the second is
\* what the file holds: the call stopped after the first comparison
C12_Witness ==
  /\ Compared /\ typ = TString /\ Len(last.in) = 2
  /\ FileOf(1) \in DOMAIN fs
  /\ last.in[1].v[1] # fs[FileOf(1)]
  /\ last.in[2].v[1] = fs[FileOf(1)]
  /\ last.err = ErrMismatch
  /\ Did(last) = <<"load", "compare">>

\* the arguments of the last call that are nil or not a pointer
Invalid == {k \in 1..Len(last.in) : last.in[k].k # "ptr"}

FirstInvalid == CHOOSE k \in Invalid : \A j \in Invalid : k <= j

\* the last call was a Load, LoadDirs or Assert with no argument or, for the
\* loader, with a nil or non-pointer argument
InvalidCall ==
  \/ last.op = "Load" /\ (Len(last.in) = 0 \/ Invalid # {})
  \/ last.op = "Assert" /\ Len(last.in) = 0

\* C13 as stated: a Load or LoadDirs with no output, a nil output or a
\* non-pointer output, and an Assert with no value, fails, populates no
\* field of any output and touches no file.
C13_InvalidArgsNoEffect ==
  InvalidCall => (last.err # NoErr /\ last.out = last.in /\ last.ops = <<>>)

\* C13: such a call fails and touches no file; the loader checks its outputs
\* one at a time while it loads them, so the invalid output and those after
\* it are left alone while the outputs before it have been loaded: nothing
\* is populated when there is no output or the first one is invalid. With
\* nothing failing before it, the error is the one of the first invalid
\* output, or the one for an empty argument list.
C13_InvalidArgsRejected ==
  InvalidCall =>
    /\ last.err # NoErr
    /\ last.ops = <<>>
    /\ Len(last.out) = Len(last.in)
    /\ Len(last.in) = 0 =>
         last.err = (IF last.op = "Load" THEN ErrNoOutputs ELSE ErrNoValues)
    /\ Invalid # {} =>
         /\ \A k \in FirstInvalid..Len(last.in) : last.out[k] = last.in[k]
         /\ FirstInvalid = 1 =>
              last.err = (IF last.in[1].k = "nil" THEN ErrNil ELSE ErrNotPtr)
         /\ last.err \in {ErrNil, ErrNotPtr} =>
              \A k \in 1..(FirstInvalid - 1), i \in 1..Len(typ) :
                (isString(typ[i].kind) /\ ~isIgnored(typ[i])
                   /\ Join(last.dirs[1], typ[i].tagName) \in DOMAIN fs /\ Len(last.dirs) = 1)
                  => last.out[k].v[i] = fs[Join(last.dirs[1], typ[i].tagName)]

\* a new struct and then nil are handed to Load: the call fails on the nil,
\* after it has loaded the file into the struct
C13_Witness ==
  /\ last.op = "Load" /\ typ = TString /\ Len(last.dirs) = 1
  /\ Len(last.in) = 2 /\ last.in[1].k = "ptr" /\ last.in[2].k = "nil"
  /\ last.err = ErrNil
  /\ FileOf(1) \in DOMAIN fs /\ fs[FileOf(1)] # <<>>
  /\ last.in[1].v[1] = <<>>
  /\ last.out[1].v[1] = fs[FileOf(1)]

\* the fields of the type that loadDir and saveDir pass over
Ignored == {i \in 1..Len(typ) : isIgnored(typ[i])}

\* the last call handed pointers to structs of a type with an ignored field
\* and no malformed tag
WithIgnored ==
  /\ Ignored # {}
  /\ \A i \in 1..Len(typ) : typ[i].tagOk
  /\ Len(last.in) >= 1
  /\ \A k \in 1..Len(last.in) : last.in[k].k = "ptr"

\* the files of the fields that are not ignored, in the directory of the call
TaggedFiles == {FileOf(i) : i \in (1..Len(typ)) \ Ignored}

\* C14: a field with no testdata tag, with an empty tag name or with the
\* name "-" is passed over: Load leaves it as the caller set it, also when
\* the directory holds a file named "-", Save and Assert in update mode
\* write and remove only the files of the other fields, and the field makes
\* none of them fail.
C14_IgnoredFieldsUntouched ==
  WithIgnored =>
    /\ last.op = "Load" =>
         /\ last.err = NoErr
         /\ \A k \in 1..Len(last.in), i \in Ignored :
              last.out[k].v[i] = last.in[k].v[i]
    /\ (last.op = "Save" \/ (last.op = "Assert" /\ last.update)) =>
         /\ last.err = NoErr
         /\ \A n \in 1..Len(last.ops) : last.ops[n][2] \in TaggedFiles

\* the directory holds a file named "-" and the file of Input; Load fills
\* Input and leaves the field tagged "-" as the caller set it
C14_Witness ==
  /\ typ = TDashed /\ LoadedOne /\ last.dirs = <<CaseDir>>
  /\ FileOf(1) \in DOMAIN fs /\ FileOf(2) \in DOMAIN fs
  /\ fs[FileOf(2)] # last.in[1].v[2]
  /\ last.out[1].v[1] = fs[FileOf(1)]
  /\ last.out[1].v[1] # last.in[1].v[1]
  /\ last.out[1].v[2] = last.in[1].v[2]

\* the fields kept in one golden file each
Single == {i \in 1..Len(typ) : ~isIgnored(typ[i]) /\ typ[i].tagOk /\ ~isExplode(typ[i])}

\* C16 as stated: in compare mode Assert fails whenever the golden file of
\* an annotated field does not exist in dir.
C16_MissingGoldenFails ==
  (Compared /\ \E i \in Single : FileOf(i) \notin DOMAIN fs) => last.err # NoErr

\* C16: in compare mode Assert fails whenever the golden file of an
\* annotated field does not exist in dir and a value holds something other
\* than the zero value in that field; a field that holds the zero value
\* matches a missing golden file, so that the zero struct asserted on a
\* directory without files succeeds.
C16_MissingGoldenFailsNonZero ==
  Compared =>
    /\ \A n \in 1..Len(last.in), i \in Single :
         (FileOf(i) \notin DOMAIN fs /\ ~IsZero(typ[i].kind, last.in[n].v[i]))
           => last.err # NoErr
    /\ (/\ DOMAIN fs = {}
        /\ \A i \in 1..Len(typ) : typ[i].tagOk
        /\ \A n \in 1..Len(last.in), i \in 1..Len(typ) :
             IsZero(typ[i].kind, last.in[n].v[i]))
         => last.err = NoErr

\* a string is asserted and its golden file does not exist: a mismatch
C16_Witness ==
  /\ Compared /\ typ = TString /\ Len(last.in) = 1
  /\ FileOf(1) \notin DOMAIN fs
  /\ last.in[1].v[1] # <<>>
  /\ last.err = ErrMismatch

\* the last call handed one pointer to Load, Save or Assert in update mode
OnePointer ==
  /\ last.op \in {"Load", "Save"} \/ (last.op = "Assert" /\ last.update)
  /\ Len(last.in) = 1 /\ last.in[1].k = "ptr"

\* C18: when a field of the struct has a malformed tag, Load and Save fail
\* with the parse error and leave nothing half done: Load has set no field
\* of the output and Save has written and removed no file, also when fields
\* with well-formed tags come before the malformed one.
C18_MalformedTagNotPartial ==
  (OnePointer /\ \E i \in 1..Len(typ) : ~typ[i].tagOk) =>
    /\ last.err = ErrTagParse
    /\ \A i \in 1..Len(typ) : last.out[1].v[i] = last.in[1].v[i]
    /\ last.ops = <<>>

\* C19: Save writes (or removes) the files of the entries of an explode map
\* in ascending order of their keys.
C19_ExplodeSavedInKeyOrder ==
  (last.op = "Save" /\ last.err = NoErr /\ isExplode(typ[1])) =>
    \A a, b \in 1..Len(last.ops) :
      a < b => PathLess(last.ops[a][2], last.ops[b][2])

\* ------------------------------------------------ claims: the codec registry
\* the Register calls for the extension of the last Get that came before it
RegisteredBefore == {k \in 1..got.at : registered[k].ext = got.ext}

LatestBefore == CHOOSE k \in RegisteredBefore : \A j \in RegisteredBefore : j <= k

\* C17: Get(ext) returns the codec of the most recent Register(ext, _); for
\* an extension never registered by a caller, the codec init registered for
\* .json, .yaml and .yml, and for any other extension an error and no codec.
C17_LatestRegistrationWins ==
  got # NoGet =>
    IF RegisteredBefore # {}
    THEN got.err = NoErr /\ got.codec = registered[LatestBefore].codec
    ELSE IF got.ext \in Registry
    THEN got.err = NoErr /\ got.codec = Defaults[got.ext]
    ELSE got.err = ErrNoCodec /\ got.codec = "nil"

\* .json, which init gave the JSON codec, is registered twice with other
\* codecs, and Get returns the second of them
C17_Witness ==
  /\ got.ext = ".json" /\ got.at = 2
  /\ registered[1].ext = ".json" /\ registered[2].ext = ".json"
  /\ registered[1].codec = "custom" /\ registered[2].codec = "YAMLCodec"
  /\ got.err = NoErr /\ got.codec = "YAMLCodec"

\* --------------------------------------------------- claims: the suite
\* some directory found in Dir, or in SharedDir when it is set, ends in .only
OnlyFound ==
  \E d \in {SuiteDir} \cup (IF shared = <<>> THEN {} ELSE {shared}) :
    d \in DOMAIN listing /\ \E e \in listing[d] : e.isDir /\ e.name[2] = ".only"

\* C7: TestFunc is invoked for a test case c exactly when some directory
\* found has the .only suffix and c.Only holds, or none has and c.Skip does
\* not hold; every other case is marked skipped; every case gets its
\* sub-test.
C7_SkipOnlyPrecedence ==
  /\ \A i \in 1..Len(log) :
       /\ log[i].invoked <=>
            \/ OnlyFound /\ log[i].testCase.Only
            \/ ~OnlyFound /\ ~log[i].testCase.Skip
       /\ log[i].invoked <=> log[i].skip = ""
  /\ pc = "done" => {log[i].name : i \in 1..Len(log)} = DOMAIN testCases

\* a.only next to b: the sub-test of a called TestFunc, that of b was skipped
C7_Witness ==
  /\ pc = "done"
  /\ shared = <<>>
  /\ {e.name : e \in listing[SuiteDir]} = {N("a", ".only"), N("b", "")}
  /\ \E i, j \in 1..Len(log) :
       /\ log[i].name = N("a", "") /\ log[i].invoked
       /\ log[j].name = N("b", "") /\ ~log[j].invoked /\ log[j].skip # ""

\* Run has scanned Dir and SharedDir without a fatal error
Scanned == pc \in {"running", "done"}

\* the names of the sub-directories of d
SubDirs(d) ==
  IF d \in DOMAIN listing THEN {e.name : e \in {x \in listing[d] : x.isDir}} ELSE {}

\* a directory name without its .skip or .only suffix
Base(e) == IF e[2] \in {".skip", ".only"} THEN N(e[1], "") ELSE e

\* the sub-directories of Dir, and of SharedDir when it is set, with base
\* name n
OwnOf(n) == {e \in SubDirs(SuiteDir) : Base(e) = n}

SharedOf(n) == IF shared = <<>> THEN {} ELSE {e \in SubDirs(shared) : Base(e) = n}

BaseNames ==
  {Base(e) : e \in SubDirs(SuiteDir) \cup (IF shared = <<>> THEN {} ELSE SubDirs(shared))}

\* C21 as stated: one test case per base name found; a name found in both
\* directories has its Dir from an entry of Dir and its SharedDir from an
\* entry of SharedDir, a name found only in SharedDir has Dir = Dir/name
\* and SharedDir set, a name found only in Dir has no SharedDir.
C21_OneCasePerBaseName ==
  Scanned =>
    /\ DOMAIN testCases = BaseNames
    /\ \A n \in DOMAIN testCases :
         /\ testCases[n].Name = n
         /\ IF OwnOf(n) # {}
            THEN testCases[n].Dir \in {Join(SuiteDir, <<e>>) : e \in OwnOf(n)}
            ELSE testCases[n].Dir = Join(SuiteDir, <<n>>)
         /\ IF SharedOf(n) # {}
            THEN testCases[n].SharedDir \in {Join(shared, <<e>>) : e \in SharedOf(n)}
            ELSE testCases[n].SharedDir = <<>>

\* C24: Run executes its sub-tests in ascending order of test-case name.
C24_SubTestsInNameOrder ==
  \A i, j \in 1..Len(log) : i < j => NameLess(log[i].name, log[j].name)

\* C27: when a directory found in Dir or SharedDir has the .only suffix,
\* Run calls TestFunc for at least one test case.
C27_OnlyRunsSomething ==
  (pc = "done" /\ OnlyFound) => \E i \in 1..Len(log) : log[i].invoked

\* C28: without SharedDir, Run runs one sub-test for each sub-directory of
\* Dir, on a case with that directory and the flags of its suffix.
C28_OneCasePerDirectory ==
  (pc = "done" /\ shared = <<>>) =>
    /\ Len(log) = Cardinality(SubDirs(SuiteDir))
    /\ \A e \in SubDirs(SuiteDir) :
         \E i \in 1..Len(log) :
           /\ log[i].testCase.Dir = Join(SuiteDir, <<e>>)
           /\ log[i].testCase.Skip = (e[2] = ".skip")
           /\ log[i].testCase.Only = (e[2] = ".only")

\* C30: every sub-test works on the test case of its own name: the skip and
\* only tests are made on it, TestFunc is passed it, and a sub-test that
\* TestFunc marked parallel still holds it when it goes on after the loop
\* of Run has moved to other cases or ended.
C30_SubTestKeepsItsCase ==
  /\ \A i \in 1..Len(log) :
       /\ log[i].testCase = testCases[log[i].name]
       /\ log[i].testCase.Name = log[i].name
       /\ log[i].invoked <=>
            (~(hasOnly /\ ~log[i].testCase.Only) /\ ~log[i].testCase.Skip)
  /\ \A sub \in paused : sub.tc = testCases[sub.name] /\ sub.tc.Name = sub.name
  /\ \A i \in 1..Len(resumed) :
       /\ resumed[i].tc = testCases[resumed[i].name]
       /\ resumed[i].tc.Name = resumed[i].name

\* two sub-tests are marked parallel; when the first one goes on, the loop
\* variable holds the case of the other, and it still sees its own case
C30_Witness ==
  /\ pc = "done" /\ Len(resumed) = 2
  /\ resumed[1].name # loopVar.Name
  /\ resumed[1].tc.Name = resumed[1].name
  /\ resumed[2].tc.Name = resumed[2].name

\* ------------------------------------------------- claims: kinds and options
\* the last call saved one struct through a pointer
SavedOne ==
  /\ last.op = "Save" \/ (last.op = "Assert" /\ last.update)
  /\ Len(last.in) = 1 /\ last.in[1].k = "ptr"

\* the files the last call wrote or removed
Touched == {last.ops[k][2] : k \in {j \in 1..Len(last.ops) : last.ops[j][1] \in {"write", "remove"}}}

\* the directories of the last call in which the pattern of field i matches
Matching(i) == {j \in 1..Len(last.dirs) : MatchedKeys(typ[i], j) # {}}

LastMatching(i) == CHOOSE j \in Matching(i) : \A k \in Matching(i) : k <= j

\* C22: a field is loaded and saved in explode mode exactly when it is a map
\* with string keys and its tag has the explode option. Any other field, a
\* map without the option or a string or int-keyed map with it, is one file
\* named by the tag: Load reads that file alone, whatever else the pattern
\* would match, a map through the codec of its extension, and Save touches
\* that file alone. A string-keyed map with the option gets on Load the
\* relative paths of the files its pattern matches as keys, and Save touches
\* one file per key.
C22_ExplodeOnlyOnStringMaps ==
  /\ (LoadedOne /\ Len(typ) = 1 /\ ~(typ[1].kind = "map" /\ "explode" \in typ[1].opts)) =>
       /\ HoldingFile(typ[1].tagName) = {} =>
            last.err = NoErr /\ last.out[1].v[1] = last.in[1].v[1]
       /\ (HoldingFile(typ[1].tagName) # {} /\ typ[1].kind = "string") =>
            /\ last.err = NoErr
            /\ last.out[1].v[1] =
                 fs[Join(last.dirs[LastHolding(typ[1].tagName)], typ[1].tagName)]
       /\ (HoldingFile(typ[1].tagName) # {} /\ typ[1].kind # "string") =>
            IF Ext(typ[1].tagName) \in Registry
            THEN /\ last.err \in {NoErr, ErrDecode}
                 /\ DOMAIN last.out[1].v[1].m \subseteq
                      DOMAIN last.in[1].v[1].m \cup {"j", "k"}
            ELSE last.err = ErrCodecNotFound /\ last.out[1].v[1] = last.in[1].v[1]
  /\ (LoadedOne /\ Len(typ) = 1 /\ typ[1].kind = "map" /\ "explode" \in typ[1].opts
        /\ last.err = NoErr) =>
       IF Matching(1) = {} THEN last.out[1].v[1] = last.in[1].v[1]
       ELSE DOMAIN last.out[1].v[1].m = MatchedKeys(typ[1], LastMatching(1))
  /\ (SavedOne /\ Len(typ) = 1) =>
       IF typ[1].kind = "map" /\ "explode" \in typ[1].opts
       THEN /\ Touched \subseteq {Join(last.dirs[1], k) : k \in DOMAIN last.in[1].v[1].m}
            /\ last.err = NoErr =>
                 Touched = {Join(last.dirs[1], k) : k \in DOMAIN last.in[1].v[1].m}
       ELSE /\ Touched \subseteq {FileOf(1)}
            /\ last.err = NoErr => Touched = {FileOf(1)}

\* a string field with the explode option is left alone by a Load from a
\* directory in which x.txt matches its pattern and no file is named *.txt
C22_Witness ==
  /\ LoadedOne
  /\ typ = TStringExplode
  /\ last.dirs = <<CaseDir>>
  /\ Join(CaseDir, <<N("x", ".txt")>>) \in DOMAIN fs
  /\ FileOf(1) \notin DOMAIN fs
  /\ last.in[1].v[1] # <<>>
  /\ last.out[1].v[1] = last.in[1].v[1]
  /\ last.err = NoErr

\* the type without the options optional, omitempty and golden
Strip(t) == [i \in 1..Len(t) |-> [t[i] EXCEPT !.opts = @ \ Vestigial]]

\* the arguments r.outs are, field by field, what the call left in out
SameOuts(outs, out) ==
  /\ Len(outs) = Len(out)
  /\ \A n \in 1..Len(outs) :
       /\ outs[n].k = out[n].k
       /\ outs[n].k = "ptr" => \A i \in 1..Len(typ) : outs[n].v[i] = out[n].v[i]

\* the disk r, its error and what was done to it are what the call left
SameDisk(r, files, ds, call) ==
  /\ DOMAIN r.files = DOMAIN files
  /\ \A f \in DOMAIN r.files : r.files[f] = files[f]
  /\ r.dirs = ds
  /\ r.err = call.err
  /\ Len(r.ops) = Len(call.ops)
  /\ \A k \in 1..Len(r.ops) : r.ops[k][1] = call.ops[k][1] /\ r.ops[k][2] = call.ops[k][2]

\* the loader on the stripped type ends as the call did
SameLoad(r, call) == r.err = call.err /\ SameOuts(r.outs, call.out)

\* the step is a first call with the given name
Calls(op) == last = NoCall /\ last'.op = op

\* C23: the tag options optional, omitempty and golden are accepted and
\* ignored: every Load, LoadDirs, Save and Assert ends as the same call on
\* the same disk does for the struct type without them, in the error it
\* reports, the field values it leaves, the files and directories on disk
\* and what it wrote and removed (for some order in which the keys of an
\* explode map are visited).
C23_OptionsIgnored ==
  [][/\ Calls("Load") =>
          SameLoad(loadDirs(fs, last'.dirs, Strip(typ), last'.in), last')
     /\ Calls("Save") =>
          \E order \in FieldOrders(typ, last'.in[1].v, 1) :
            SameDisk(saveDir(Disk(fs, dirs), last'.dirs[1], Strip(typ), last'.in[1], order),
                     fs', dirs', last')
     /\ Calls("Assert") =>
          \E orders \in ValueOrders(last'.in, 1) :
            SameDisk(assert(Disk(fs, dirs), last'.dirs[1], Strip(typ), last'.in,
                            last'.update, orders),
                     fs', dirs', last')]_vars

\* a string field tagged optional, omitempty and golden keeps its value when
\* its file is missing, and an explode map with these options was saved
C23_Witness ==
  \/ /\ LoadedOne
     /\ typ = TStringOpts
     /\ HoldingFile(typ[1].tagName) = {}
     /\ last.in[1].v[1] # <<>>
     /\ last.err = NoErr
  \/ /\ SavedOne
     /\ typ = TExplodeOpts
     /\ last.err = NoErr
     /\ Touched # {}

\* -------------------------------------------------- claims: effects on disk
\* C25: Load, LoadDirs and Assert in compare mode only read: whether the call
\* succeeds or fails (no outputs, nil or non-pointer output, malformed tag,
\* no codec, undecodable file, mismatch), every file has the content it had
\* before the call, no file or directory is created or deleted, and the call
\* wrote and removed nothing.
C25_ReadersLeaveDisk ==
  [][(Calls("Load") \/ (Calls("Assert") /\ ~last'.update)) =>
       /\ DOMAIN fs' = DOMAIN fs
       /\ \A f \in DOMAIN fs : fs'[f] = fs[f]
       /\ dirs' = dirs
       /\ \A k \in 1..Len(last'.ops) : last'.ops[k][1] \notin {"write", "remove"}]_vars

\* a comparison that failed on a golden file that does not decode, and one
\* that found a mismatch, with the value holding what Save would write
C25_Witness ==
  /\ Compared
  /\ DOMAIN fs # {}
  /\ \/ last.err = ErrDecode
     \/ /\ last.err = ErrMismatch
        /\ \E i \in 1..Len(typ) : ~IsZero(typ[i].kind, last.in[1].v[i])

\* C26: Save, and Assert in update mode, write and remove files inside dir
\* only: every file the call touched lies below dir, whatever the keys of an
\* explode map are.
C26_SaveStaysInDir ==
  (last.op = "Save" \/ Updated) =>
    \A f \in Touched : IsPrefix(last.dirs[1], f) /\ f # last.dirs[1]

\* ------------------------------------------------- claims: argument sorts
\* C29: whatever the arguments are (nil, a struct by value, a pointer to a
\* non-struct, a pointer to a struct), Load and Assert end with success or
\* with a reported error, never with a panic, and Assert in compare mode
\* rejects a nil or non-pointer value with the error that update mode
\* reports for it.
C29_NeverCrashes ==
  last.op \in {"Load", "Assert"} =>
    /\ last.err # Panic
    /\ (last.op = "Assert" /\ Len(last.in) = 1 /\ last.in[1].k = "nil") =>
         last.err = ErrNil
    /\ (last.op = "Assert" /\ Len(last.in) = 1 /\ last.in[1].k = "value") =>
         last.err = ErrNotPtr
====
